---------------------------- MODULE Spec2Model ----------------------------
(***************************************************************************)
(* KnotX Casper gateway (contracts/casper/contract/src/main.rs) and its    *)
(* mock receiver (contracts/casper/receiver/src/main.rs) as a state        *)
(* machine.  One action per entry point; every entry point runs as one     *)
(* atomic host transaction, and a transaction that reverts or traps        *)
(* leaves no effect in global state.                                        *)
(***************************************************************************)
EXTENDS Integers, Sequences, FiniteSets, TLC

(***************************************************************************)
(* Bounds of the model.                                                    *)
(***************************************************************************)
\* successful send_message calls explored (caps the u64 nonce counter)
MaxSends == 2

(***************************************************************************)
(* Program constants.                                                      *)
(***************************************************************************)
CASPER_CHAIN_ID == 3
UnsupportedChain == 1
AlreadyExecuted == 2
InvalidReceiver == 3
InvalidSignature == 5
\* relayer_pubkey.len() != 64 in the installer
InstallKeyLen == 64
\* receiver.len() != 32 in execute_message; also size of ContractHash / AccountHash
HashLen == 32
\* byte length a k256 ecdsa Signature is converted from
SignatureLen == 64
\* SEC1 encodings k256's VerifyingKey is converted from
Sec1CompressedLen == 33
Sec1UncompressedLen == 65
\* The u64 counter is kept modulo 2^64 by its representative nearest to 0:
\* a negative n stands for 2^64 + n, so that n + 1 is the wrapping addition
\* and to_be_bytes(8, n) are the 8 bytes of the value.  u64::MAX is then
U64_MAX == -1

(***************************************************************************)
(* Byte strings are sequences of 0..255.                                   *)
(***************************************************************************)
Rep(b, n) == [i \in 1..n |-> b]

RECURSIVE to_be_bytes(_, _)
\* n.to_be_bytes() for an unsigned integer of `width` bytes
to_be_bytes(width, n) ==
    IF width = 0 THEN << >>
    ELSE to_be_bytes(width - 1, n \div 256) \o << n % 256 >>

\* a plausible slip: source and destination chain ids written in swapped order
build_message_bytes_swapped(src_chain_id, dst_chain_id, src_gateway, receiver, nonce, payload) ==
    to_be_bytes(4, dst_chain_id) \o to_be_bytes(4, src_chain_id) \o src_gateway
        \o receiver \o to_be_bytes(8, nonce) \o payload

\* a plausible slip: the source chain id extended twice, the destination never
build_message_bytes_src_twice(src_chain_id, dst_chain_id, src_gateway, receiver, nonce, payload) ==
    to_be_bytes(4, src_chain_id) \o to_be_bytes(4, src_chain_id) \o src_gateway
        \o receiver \o to_be_bytes(8, nonce) \o payload

build_message_bytes(src_chain_id, dst_chain_id, src_gateway, receiver, nonce, payload) ==
    to_be_bytes(4, src_chain_id) \o to_be_bytes(4, dst_chain_id) \o src_gateway
        \o receiver \o to_be_bytes(8, nonce) \o payload

HEX == << "0", "1", "2", "3", "4", "5", "6", "7",
          "8", "9", "a", "b", "c", "d", "e", "f" >>

\* two lowercase hex characters per byte (high nibble first); a string is a
\* sequence of characters
to_hex(bytes) ==
    [i \in 1..(2 * Len(bytes)) |->
        IF i % 2 = 1 THEN HEX[(bytes[(i + 1) \div 2] \div 16) + 1]
                     ELSE HEX[(bytes[i \div 2] % 16) + 1]]

\* The host's blake2b is taken as an ideal hash: deterministic and free of
\* collisions.  A digest is represented by the tagged preimage, so two digests
\* are equal exactly when the hashed messages are.
blake2b(message) == << 178 >> \o message

message_key(message) == to_hex(blake2b(message))

RECURSIVE to_string(_)
\* u32::to_string / u64::to_string: decimal digits, no leading zeros
to_string(n) ==
    IF n < 10 THEN << HEX[n + 1] >>
    ELSE to_string(n \div 10) \o << HEX[(n % 10) + 1] >>

(***************************************************************************)
(* Dictionaries: functions whose domain is the set of keys written.        *)
(***************************************************************************)
EmptyDict == << >>

dictionary_put(dict, key, value) ==
    [k \in (DOMAIN dict) \cup {key} |-> IF k = key THEN value ELSE dict[k]]

\* dictionary_get(..) == Some(value)
dictionary_has(dict, key, value) == key \in DOMAIN dict /\ dict[key] = value

(***************************************************************************)
(* Outcomes of a host transaction.                                         *)
(***************************************************************************)
Ok == [status |-> "ok", code |-> 0]
Revert(e) == [status |-> "revert", code |-> e]
\* a Rust panic (unwrap on Err) compiles to a wasm trap
Trap == [status |-> "trap", code |-> 0]
\* the host fails call_contract on a hash that names no contract
NoSuchContract == [status |-> "host_error", code |-> 0]


(***************************************************************************)
(* Key material.  A key pair is named by one byte; every encoding of its   *)
(* public key carries that byte in each coordinate position.               *)
(***************************************************************************)
KeyPairs == {7, 8}

\* SEC1 compressed point: tag 2 or 3, then the 32-byte x coordinate
Sec1Compressed(kp) == << 2 >> \o Rep(kp, 32)
\* SEC1 uncompressed point: tag 4, then x and y
Sec1Uncompressed(kp) == << 4 >> \o Rep(kp, 64)
\* x and y with no tag: 64 bytes
RawXY(kp) == Rep(kp, 64)

\* the key pair whose public key the bytes were derived from
KeyHolder(bytes) == IF bytes = << >> THEN 0 ELSE bytes[Len(bytes)]

\* PublicKey::Secp256k1(bytes.try_into()): k256's VerifyingKey is converted
\* from a SEC1 encoded point, whose length is fixed by its tag byte.
TryIntoPublicKey(bytes) ==
    IF \/ Len(bytes) = Sec1CompressedLen /\ bytes[1] \in {2, 3}
       \/ Len(bytes) = Sec1UncompressedLen /\ bytes[1] = 4
    THEN [ok |-> TRUE, holder |-> KeyHolder(bytes)]
    ELSE [ok |-> FALSE, holder |-> 0]

\* A signature is the triple (signing key pair, signed message, byte length).
\* Signature::Secp256k1(signature.try_into()) needs the 64-byte r || s form.
TryIntoSignature(signature) ==
    [ok |-> signature.len = SignatureLen, signer |-> signature.signer,
     message |-> signature.message]

\* host verify_signature(message, &sig, &pubkey)
verify_signature(message, sig, pubkey) ==
    sig.message = message /\ sig.signer = pubkey.holder

(***************************************************************************)
(* State.                                                                  *)
(***************************************************************************)
VARIABLES
    gateway,            \* TRUE once storage::new_contract has run for the gateway
    nonce,              \* named key "nonce"
    relayer_pubkey,     \* named key "relayer_pubkey"
    supported_chains,   \* dictionary "supported_chains"
    executed_messages,  \* dictionary "executed_messages"
    messages,           \* dictionary "messages"
    receiver,           \* TRUE once the mock receiver is installed
    count,              \* the mock receiver's named key "count"
    lastCall,           \* the last transaction: entry point, arguments, outcome
    sent,               \* history: the successful send_message calls, in order
    dispatched,         \* history: digests whose message the gateway passed to on_call
    marked              \* history: per chain id, the flag of the latest set_supported_chain call

vars == << gateway, nonce, relayer_pubkey, supported_chains, executed_messages,
           messages, receiver, count, lastCall, sent, dispatched, marked >>

gatewayState == << gateway, nonce, relayer_pubkey, supported_chains,
                   executed_messages, messages >>

(***************************************************************************)
(* Inputs.                                                                 *)
(***************************************************************************)
\* ContractHash of the installed mock receiver
MockReceiverHash == Rep(5, HashLen)

\* relayer_pubkey arguments of the installer
KeyInputs == { RawXY(7), Sec1Compressed(7), Rep(1, 33), Sec1Uncompressed(7), << >> }

\* runtime::get_caller().to_bytes(): AccountHash values
Callers == { Rep(10, HashLen) }

ChainIds == { 1, 999 }

\* receiver arguments of execute_message: the installed receiver's hash and a
\* byte string that is no contract hash
ReceiverInputs == { MockReceiverHash, << 5 >> }

\* receiver arguments of send_message: an identity on the destination chain
SendReceivers == { Rep(0, HashLen), Rep(0, HashLen - 1) }

PayloadInputs == { << 1 >>, << >> }

\* payload arguments of execute_message
InboundPayloads == { << 1, 2, 3 >> }

SrcChainIds == { 1 }

SrcGateways == { Rep(9, HashLen) }

InboundNonces == { 0 }

\* signatures a relayer or anyone else can present for given inbound fields:
\* by either key pair, over the message for this chain or for another
\* destination chain, and one cut to 63 bytes
SignatureInputs(src_chain_id, src_gateway, rcv, n, payload) ==
    LET here == build_message_bytes(src_chain_id, CASPER_CHAIN_ID, src_gateway, rcv, n, payload)
        elsewhere == build_message_bytes(src_chain_id, 1, src_gateway, rcv, n, payload)
    IN  { [signer |-> kp, message |-> m, len |-> SignatureLen] :
              kp \in KeyPairs, m \in {here, elsewhere} }
        \cup { [signer |-> 7, message |-> here, len |-> SignatureLen - 1] }

Init ==
    /\ gateway = FALSE
    /\ nonce = 0
    /\ relayer_pubkey = << >>
    /\ supported_chains = EmptyDict
    /\ executed_messages = EmptyDict
    /\ messages = EmptyDict
    /\ receiver = FALSE
    /\ count = 0
    /\ lastCall = [op |-> "none", result |-> Ok]
    /\ sent = << >>
    /\ dispatched = << >>
    /\ marked = [c \in ChainIds |-> "never"]

(***************************************************************************)
(* Gateway installer: call()                                               *)
(***************************************************************************)
\* a plausible slip: the length check left out
InstallAcceptsAny(key) == TRUE

InstallAccepts(key) == Len(key) = InstallKeyLen

\* a plausible slip: an empty byte string is stored in place of the argument
stored_relayer_key_empty(key) == << >>

\* storage::new_uref(relayer_pubkey): the value behind "relayer_pubkey"
stored_relayer_key(key) == key

call(key) ==
    /\ ~gateway
    /\ IF ~InstallAccepts(key)
       THEN /\ lastCall' = [op |-> "call", key |-> key, result |-> Revert(InvalidSignature)]
            /\ UNCHANGED << gatewayState, receiver, count, sent, dispatched, marked >>
       ELSE /\ gateway' = TRUE
            /\ nonce' = 0
            /\ relayer_pubkey' = stored_relayer_key(key)
            /\ supported_chains' = EmptyDict
            /\ executed_messages' = EmptyDict
            /\ messages' = EmptyDict
            /\ lastCall' = [op |-> "call", key |-> key, result |-> Ok]
            /\ UNCHANGED << receiver, count, sent, dispatched, marked >>

(***************************************************************************)
(* send_message                                                            *)
(***************************************************************************)
\* a plausible slip: only an explicit `false` blocks a chain
is_supported_unless_false(dst_chain_id) ==
    ~dictionary_has(supported_chains, to_string(dst_chain_id), FALSE)

\* allowed == Some(true)
is_supported(dst_chain_id) ==
    dictionary_has(supported_chains, to_string(dst_chain_id), TRUE)

\* a plausible slip: the message carries the counter after its increment
outbound_nonce_after == nonce + 1

\* the nonce the outbound message is built with: the value read from storage
outbound_nonce == nonce

\* `nonce + 1` is unchecked: a build with overflow checks panics at u64::MAX,
\* a build without them wraps; overflow_checks names the build, which shows
\* only at u64::MAX.
send_message(caller, dst_chain_id, rcv, payload) ==
    /\ gateway
    /\ \E overflow_checks \in (IF nonce = U64_MAX THEN BOOLEAN ELSE {FALSE}) :
       IF ~is_supported(dst_chain_id)
       THEN /\ lastCall' = [op |-> "send_message", caller |-> caller,
                            dst_chain_id |-> dst_chain_id, receiver |-> rcv,
                            payload |-> payload, result |-> Revert(UnsupportedChain),
                            ret |-> << >>, key |-> << >>]
            /\ UNCHANGED << gatewayState, receiver, count, sent, dispatched, marked >>
       ELSE IF nonce = U64_MAX /\ overflow_checks
       THEN /\ lastCall' = [op |-> "send_message", caller |-> caller,
                            dst_chain_id |-> dst_chain_id, receiver |-> rcv,
                            payload |-> payload, result |-> Trap,
                            ret |-> << >>, key |-> << >>]
            /\ UNCHANGED << gatewayState, receiver, count, sent, dispatched, marked >>
       ELSE LET message_bytes == build_message_bytes(CASPER_CHAIN_ID, dst_chain_id,
                                     caller, rcv, outbound_nonce, payload)
                key == message_key(message_bytes)
            IN  /\ Len(sent) < MaxSends
                /\ nonce' = nonce + 1
                /\ messages' = dictionary_put(messages, key, message_bytes)
                /\ lastCall' = [op |-> "send_message", caller |-> caller,
                                dst_chain_id |-> dst_chain_id, receiver |-> rcv,
                                payload |-> payload, result |-> Ok,
                                ret |-> message_bytes, key |-> key]
                /\ sent' = Append(sent, [caller |-> caller, dst_chain_id |-> dst_chain_id,
                                         receiver |-> rcv, payload |-> payload,
                                         ret |-> message_bytes])
                /\ UNCHANGED << gateway, relayer_pubkey, supported_chains,
                                executed_messages, receiver, count, dispatched, marked >>

(***************************************************************************)
(* set_supported_chain                                                     *)
(***************************************************************************)
\* a plausible slip: the flag argument is ignored and the chain is enabled
set_supported_chain_enable_only(chain_id, supported) ==
    /\ gateway
    /\ supported_chains' = dictionary_put(supported_chains, to_string(chain_id), TRUE)
    /\ marked' = [marked EXCEPT ![chain_id] = IF supported THEN "true" ELSE "false"]
    /\ lastCall' = [op |-> "set_supported_chain", chain_id |-> chain_id,
                    supported |-> supported, result |-> Ok]
    /\ UNCHANGED << gateway, nonce, relayer_pubkey, executed_messages, messages,
                    receiver, count, sent, dispatched >>

\* a plausible slip: the flag is put into the dictionary behind "messages"
set_supported_chain_into_messages(chain_id, supported) ==
    /\ gateway
    /\ messages' = dictionary_put(messages, to_string(chain_id), supported)
    /\ lastCall' = [op |-> "set_supported_chain", chain_id |-> chain_id,
                    supported |-> supported, result |-> Ok]
    /\ marked' = [marked EXCEPT ![chain_id] = IF supported THEN "true" ELSE "false"]
    /\ UNCHANGED << gateway, nonce, relayer_pubkey, executed_messages, supported_chains,
                    receiver, count, sent, dispatched >>

set_supported_chain(chain_id, supported) ==
    /\ gateway
    /\ supported_chains' = dictionary_put(supported_chains, to_string(chain_id), supported)
    /\ lastCall' = [op |-> "set_supported_chain", chain_id |-> chain_id,
                    supported |-> supported, result |-> Ok]
    /\ marked' = [marked EXCEPT ![chain_id] = IF supported THEN "true" ELSE "false"]
    /\ UNCHANGED << gateway, nonce, relayer_pubkey, executed_messages, messages,
                    receiver, count, sent, dispatched >>

(***************************************************************************)
(* Mock receiver: on_call writes current + 1 to its "count"                *)
(***************************************************************************)
on_call(current) == current + 1

(***************************************************************************)
(* execute_message                                                         *)
(***************************************************************************)
\* a plausible slip: the gate left open, no verification done
verify_relayer_signature_skipped(message, signature) == Ok

\* Ok, or the failure that ends the transaction
verify_relayer_signature(message, signature) ==
    LET pubkey == TryIntoPublicKey(relayer_pubkey)
        sig == TryIntoSignature(signature)
    IN  IF ~pubkey.ok THEN Trap
        ELSE IF ~sig.ok THEN Trap
        ELSE IF verify_signature(message, sig, pubkey) THEN Ok
        ELSE Revert(InvalidSignature)

\* the outcome of the whole entry point
execute_message_result(message_bytes, rcv, signature) ==
    LET checked == verify_relayer_signature(message_bytes, signature)
    IN  IF checked # Ok THEN checked
        ELSE IF dictionary_has(executed_messages, message_key(message_bytes), TRUE)
             THEN Revert(AlreadyExecuted)
        ELSE IF Len(rcv) # HashLen THEN Revert(InvalidReceiver)
        ELSE IF ~(receiver /\ rcv = MockReceiverHash) THEN NoSuchContract
        ELSE Ok

execute_message(src_chain_id, src_gateway, rcv, n, payload, signature) ==
    LET message_bytes == build_message_bytes(src_chain_id, CASPER_CHAIN_ID,
                             src_gateway, rcv, n, payload)
        key == message_key(message_bytes)
        result == execute_message_result(message_bytes, rcv, signature)
    IN  /\ gateway
        /\ lastCall' = [op |-> "execute_message", src_chain_id |-> src_chain_id,
                        src_gateway |-> src_gateway, receiver |-> rcv, nonce |-> n,
                        payload |-> payload, signature |-> signature,
                        result |-> result]
        /\ IF result = Ok
           THEN \* the dictionary_put and the receiver's on_call commit together
                /\ executed_messages' = dictionary_put(executed_messages, key, TRUE)
                /\ count' = on_call(count)
                /\ dispatched' = Append(dispatched, key)
                /\ UNCHANGED << gateway, nonce, relayer_pubkey, supported_chains,
                                messages, receiver, sent, marked >>
           ELSE \* revert or trap: the host discards the transaction's writes
                UNCHANGED << gatewayState, receiver, count, sent, dispatched, marked >>

\* the mock receiver's installer, call()
install_receiver ==
    /\ ~receiver
    /\ receiver' = TRUE
    /\ count' = 0
    /\ lastCall' = [op |-> "install_receiver", result |-> Ok]
    /\ UNCHANGED << gatewayState, sent, dispatched, marked >>

Next ==
    \/ \E key \in KeyInputs : call(key)
    \/ \E caller \in Callers, dst \in ChainIds, rcv \in SendReceivers,
          payload \in PayloadInputs : send_message(caller, dst, rcv, payload)
    \/ \E chain_id \in ChainIds, supported \in BOOLEAN :
          set_supported_chain(chain_id, supported)
    \/ \E src \in SrcChainIds, gw \in SrcGateways, rcv \in ReceiverInputs,
          n \in InboundNonces, payload \in InboundPayloads :
          \E signature \in SignatureInputs(src, gw, rcv, n, payload) :
              execute_message(src, gw, rcv, n, payload, signature)
    \/ install_receiver

Spec == Init /\ [][Next]_vars

(***************************************************************************)
(* The gateway late in its life: installed, chain 1 enabled, and the       *)
(* counter two sends below the top of the u64 range.  `sent` and           *)
(* `messages` hold what is sent from here on; the earlier archive entries  *)
(* are left out.                                                           *)
(***************************************************************************)
InitNonceTop ==
    /\ gateway = TRUE
    /\ nonce = U64_MAX - 1
    /\ relayer_pubkey = RawXY(7)
    /\ supported_chains = dictionary_put(EmptyDict, to_string(1), TRUE)
    /\ executed_messages = EmptyDict
    /\ messages = EmptyDict
    /\ receiver = FALSE
    /\ count = 0
    /\ lastCall = [op |-> "none", result |-> Ok]
    /\ sent = << >>
    /\ dispatched = << >>
    /\ marked = [c \in ChainIds |-> IF c = 1 THEN "true" ELSE "never"]

NextNonceTop ==
    \/ \E caller \in Callers, dst \in ChainIds, rcv \in SendReceivers,
          payload \in PayloadInputs : send_message(caller, dst, rcv, payload)
    \/ \E chain_id \in ChainIds, supported \in BOOLEAN :
          set_supported_chain(chain_id, supported)
    \/ \E src \in SrcChainIds, gw \in SrcGateways, rcv \in ReceiverInputs,
          n \in InboundNonces, payload \in InboundPayloads :
          \E signature \in SignatureInputs(src, gw, rcv, n, payload) :
              execute_message(src, gw, rcv, n, payload, signature)
    \/ install_receiver

SpecNonceTop == InitNonceTop /\ [][NextNonceTop]_vars

(***************************************************************************)
(* The codec alone: build_message_bytes applied to two messages drawn from *)
(* a bounded set of logical messages with short variable-length fields.    *)
(***************************************************************************)
CodecMessages ==
    [ src_chain_id : {1, 3}, dst_chain_id : {1, 3},
      src_gateway : { << >>, << 0 >>, << 9 >> },
      receiver : { << >>, << 0 >>, << 9 >> },
      nonce : {0, 1},
      payload : { << >>, << 1 >> } ]

Encoded(m) ==
    build_message_bytes(m.src_chain_id, m.dst_chain_id, m.src_gateway, m.receiver,
                        m.nonce, m.payload)

\* the two messages to encode are drawn at the start
InitCodec ==
    /\ gateway = FALSE
    /\ nonce = 0
    /\ relayer_pubkey = << >>
    /\ supported_chains = EmptyDict
    /\ executed_messages = EmptyDict
    /\ messages = EmptyDict
    /\ receiver = FALSE
    /\ count = 0
    /\ lastCall \in { [op |-> "input", a |-> a, b |-> b, result |-> Ok] :
                         a \in CodecMessages, b \in CodecMessages }
    /\ sent = << >>
    /\ dispatched = << >>
    /\ marked = [c \in ChainIds |-> "never"]

Encode ==
    /\ lastCall.op = "input"
    /\ lastCall' = [op |-> "encode", a |-> lastCall.a, b |-> lastCall.b,
                    bytes_a |-> Encoded(lastCall.a), bytes_b |-> Encoded(lastCall.b),
                    result |-> Ok]
    /\ UNCHANGED << gatewayState, receiver, count, sent, dispatched, marked >>

NextCodec == Encode

SpecCodec == InitCodec /\ [][NextCodec]_vars

(***************************************************************************)
(* The admission decision alone: build_message_bytes, the host's           *)
(* verify_signature and the receiver length check of execute_message,      *)
(* applied to a call whose signature a key holder made over one logical    *)
(* message, with the relayer's key in the SEC1 form the verifier parses.   *)
(***************************************************************************)
GateMessages ==
    [ src_chain_id : { 1 },
      src_gateway : { << >>, MockReceiverHash, Rep(9, HashLen) },
      receiver : { MockReceiverHash, Rep(0, HashLen) },
      nonce : { 0, 1 },
      payload : { << >>, Rep(0, HashLen), << 1, 2, 3 >> } ]

\* the signature the holder of key pair `signer` makes over the canonical
\* bytes of m for this chain
sign_message(signer, m) ==
    [signer |-> signer,
     message |-> build_message_bytes(m.src_chain_id, CASPER_CHAIN_ID, m.src_gateway,
                                     m.receiver, m.nonce, m.payload),
     len |-> SignatureLen]

\* execute_message's checks on call c: the signature verifies on the rebuilt
\* bytes and the receiver is 32 bytes long
gate_accepts(c, signature, pubkey_bytes) ==
    LET message_bytes == build_message_bytes(c.src_chain_id, CASPER_CHAIN_ID,
                             c.src_gateway, c.receiver, c.nonce, c.payload)
        pubkey == TryIntoPublicKey(pubkey_bytes)
        sig == TryIntoSignature(signature)
    IN  /\ pubkey.ok
        /\ sig.ok
        /\ verify_signature(message_bytes, sig, pubkey)
        /\ Len(c.receiver) = HashLen

\* the signed message, its signer and the presented call are drawn at the start
InitGate ==
    /\ gateway = FALSE
    /\ nonce = 0
    /\ relayer_pubkey = << >>
    /\ supported_chains = EmptyDict
    /\ executed_messages = EmptyDict
    /\ messages = EmptyDict
    /\ receiver = FALSE
    /\ count = 0
    /\ lastCall \in { [op |-> "input", signer |-> kp, signed |-> a, presented |-> b,
                        result |-> Ok] :
                         kp \in KeyPairs, a \in GateMessages, b \in GateMessages }
    /\ sent = << >>
    /\ dispatched = << >>
    /\ marked = [c \in ChainIds |-> "never"]

Admit ==
    /\ lastCall.op = "input"
    /\ lastCall' = [op |-> "admit", signer |-> lastCall.signer,
                    signed |-> lastCall.signed, presented |-> lastCall.presented,
                    accepted |-> gate_accepts(lastCall.presented,
                                     sign_message(lastCall.signer, lastCall.signed),
                                     Sec1Compressed(7)),
                    result |-> Ok]
    /\ UNCHANGED << gatewayState, receiver, count, sent, dispatched, marked >>

NextGate == Admit

SpecGate == InitGate /\ [][NextGate]_vars

(***************************************************************************)
(* Helpers of the properties.                                              *)
(***************************************************************************)
RECURSIVE from_be_bytes(_)
\* the unsigned integer a big-endian byte string denotes
from_be_bytes(bytes) ==
    IF bytes = << >> THEN 0
    ELSE 256 * from_be_bytes(SubSeq(bytes, 1, Len(bytes) - 1)) + bytes[Len(bytes)]

\* the nonce field of an outbound message: the 8 bytes after the two chain
\* ids, the sender and the receiver
EmbeddedNonce(s) ==
    from_be_bytes(SubSeq(s.ret, 8 + Len(s.caller) + Len(s.receiver) + 1,
                                8 + Len(s.caller) + Len(s.receiver) + 8))

\* the canonical bytes execute_message is specified to check: the given
\* fields with this chain as destination
InboundCanonical(c) ==
    to_be_bytes(4, c.src_chain_id) \o to_be_bytes(4, CASPER_CHAIN_ID) \o c.src_gateway
        \o c.receiver \o to_be_bytes(8, c.nonce) \o c.payload

\* the signature was made by the holder of the installed key over the
\* canonical bytes of the call
SignedByRelayer(c) ==
    /\ c.signature.signer = KeyHolder(relayer_pubkey)
    /\ c.signature.message = InboundCanonical(c)

\* the chain was never marked, or its latest mark is false
NotMarkedSupported(chain_id) ==
    \/ to_string(chain_id) \notin DOMAIN supported_chains
    \/ supported_chains[to_string(chain_id)] = FALSE

(***************************************************************************)
(* Properties.                                                             *)
(***************************************************************************)

\* C1 (observation): in every reachable state the gateway has dispatched
\* nothing, so "at most once per digest" is never put to the test.  The
\* installer admits only 64-byte keys, which TryIntoPublicKey rejects.
C1_NoDispatchReachable == dispatched = << >> /\ count = 0

\* C2 (the claim as stated): an execute_message call carrying the relayer's
\* signature over its canonical bytes, addressed to the installed receiver,
\* succeeds when its digest is not yet in executed_messages and fails with
\* AlreadyExecuted when it is.
C2_ExecuteTwice ==
    [][ ( /\ lastCall'.op = "execute_message"
          /\ SignedByRelayer(lastCall')
          /\ lastCall'.signature.len = SignatureLen
          /\ receiver /\ lastCall'.receiver = MockReceiverHash )
        => IF dictionary_has(executed_messages, message_key(InboundCanonical(lastCall')), TRUE)
           THEN lastCall'.result = Revert(AlreadyExecuted)
           ELSE lastCall'.result = Ok ]_vars

\* C3 (the claim as stated): an execute_message call whose signature was not
\* made by the installed relayer key over the canonical bytes fails with
\* InvalidSignature, changes no gateway state and dispatches nothing.
C3_InvalidSignatureRejected ==
    [][ ( /\ lastCall'.op = "execute_message"
          /\ ~SignedByRelayer(lastCall') )
        => /\ lastCall'.result = Revert(InvalidSignature)
           /\ UNCHANGED << gatewayState, count, dispatched >> ]_vars

\* C4: the k-th successful send_message carries nonce k-1 in its message, and
\* the stored counter equals the number of successful send_message calls,
\* whatever failed sends and other calls happened in between.
C4_NonceSequence ==
    /\ nonce = Len(sent)
    /\ \A k \in 1..Len(sent) : EmbeddedNonce(sent[k]) = k - 1

\* C4 witness: two sends have succeeded and a later send has failed
C4_Witness ==
    /\ Len(sent) = 2
    /\ lastCall.op = "send_message"
    /\ lastCall.result = Revert(UnsupportedChain)

\* C5: send_message to a chain that was never marked supported, or whose
\* latest mark is false, fails with UnsupportedChain (user error 1) and leaves
\* the nonce counter and the messages archive unchanged.
C5_UnsupportedChainRejected ==
    [][ ( /\ lastCall'.op = "send_message"
          /\ NotMarkedSupported(lastCall'.dst_chain_id) )
        => /\ lastCall'.result = [status |-> "revert", code |-> 1]
           /\ nonce' = nonce
           /\ messages' = messages ]_vars

\* C5 witness: a send to a chain that was supported, used, and then unmarked
C5_Witness ==
    /\ lastCall.op = "send_message"
    /\ lastCall.result = Revert(UnsupportedChain)
    /\ to_string(lastCall.dst_chain_id) \in DOMAIN supported_chains
    /\ supported_chains[to_string(lastCall.dst_chain_id)] = FALSE
    /\ \E k \in 1..Len(sent) : sent[k].dst_chain_id = lastCall.dst_chain_id

\* C6: a successful send_message returns
\* be32(3) || be32(dst_chain_id) || caller || receiver || be64(nonce before) || payload
\* and the one archive entry it writes holds exactly the returned bytes.
C6_ReturnedBytes ==
    [][ ( /\ lastCall'.op = "send_message"
          /\ lastCall'.result = Ok )
        => /\ lastCall'.ret = to_be_bytes(4, 3) \o to_be_bytes(4, lastCall'.dst_chain_id)
                                \o lastCall'.caller \o lastCall'.receiver
                                \o to_be_bytes(8, nonce) \o lastCall'.payload
           /\ \E key \in DOMAIN messages' :
                 /\ messages'[key] = lastCall'.ret
                 /\ \A other \in (DOMAIN messages') \ {key} :
                       other \in DOMAIN messages /\ messages'[other] = messages[other]
                 /\ DOMAIN messages \subseteq DOMAIN messages' ]_vars

\* C6 witness: a second successful send, to chain 999 with the 32-byte receiver
C6_Witness ==
    /\ lastCall.op = "send_message"
    /\ lastCall.result = Ok
    /\ lastCall.dst_chain_id = 999
    /\ Len(lastCall.receiver) = HashLen
    /\ Len(sent) = 2

\* C7 (the claim as stated): after a successful send_message that was given
\* nonce n, the archive maps the decimal string of n to the message bytes.
C7_ArchiveKeyedByNonce ==
    \A k \in 1..Len(sent) :
        /\ to_string(k - 1) \in DOMAIN messages
        /\ messages[to_string(k - 1)] = sent[k].ret

\* C8 (the claim as stated): installing with a 33-byte relayer key succeeds
\* and leaves an operational gateway with nonce = 0.
C8_Install33Succeeds ==
    (lastCall.op = "call" /\ Len(lastCall.key) = Sec1CompressedLen)
        => (lastCall.result = Ok /\ gateway /\ nonce = 0)

C10_DispatchOnce ==
    [][ ( /\ lastCall'.op = "execute_message"
          /\ SignedByRelayer(lastCall')
          /\ lastCall'.signature.len = SignatureLen
          /\ ~dictionary_has(executed_messages, message_key(InboundCanonical(lastCall')), TRUE)
          /\ receiver /\ lastCall'.receiver = MockReceiverHash )
        => /\ lastCall'.result = Ok
           /\ count' = count + 1 ]_vars

\* the digest key of the call's canonical bytes is recorded as true
Recorded(dict, c) == dictionary_has(dict, message_key(InboundCanonical(c)), TRUE)

\* the stored registry entry of a chain, as a word
Mark(dict, chain_id) ==
    IF to_string(chain_id) \notin DOMAIN dict THEN "never"
    ELSE IF dict[to_string(chain_id)] THEN "true" ELSE "false"

C13_RegistryFollowsLatestSet ==
    /\ \A c \in ChainIds : Mark(supported_chains, c) = marked[c]
    /\ lastCall.op = "set_supported_chain" => lastCall.result = Ok
    /\ lastCall.op = "send_message"
          => (lastCall.result = Ok <=> marked[lastCall.dst_chain_id] = "true")
    /\ lastCall.op = "send_message"
          => (lastCall.result = Revert(UnsupportedChain)
                 <=> marked[lastCall.dst_chain_id] # "true")

\* C13 witness: chain 1 was enabled and then disabled while chain 999 stays
\* enabled, and the disabling call is the last one
C13_Witness ==
    /\ lastCall.op = "set_supported_chain"
    /\ lastCall.chain_id = 1 /\ lastCall.supported = FALSE
    /\ marked[999] = "true"
    /\ \E k \in 1..Len(sent) : sent[k].dst_chain_id = 1

\* C14 (the claim as stated): two messages that differ in at least one field
\* have different canonical bytes, whatever the lengths of their fields.
C14_InjectiveAnyLengths ==
    (lastCall.op = "encode" /\ lastCall.a # lastCall.b)
        => lastCall.bytes_a # lastCall.bytes_b

\* C14 (amended): two messages that differ in at least one field, and whose
\* src_gateway fields have the same length and whose receiver fields have the
\* same length, have different canonical bytes.
C14_InjectiveFixedLengths ==
    ( /\ lastCall.op = "encode"
      /\ lastCall.a # lastCall.b
      /\ Len(lastCall.a.src_gateway) = Len(lastCall.b.src_gateway)
      /\ Len(lastCall.a.receiver) = Len(lastCall.b.receiver) )
        => lastCall.bytes_a # lastCall.bytes_b

\* C14 witness: two messages with one-byte senders and receivers that differ
\* in the destination chain, the receiver and the nonce have been encoded
C14_Witness ==
    /\ lastCall.op = "encode"
    /\ Len(lastCall.a.src_gateway) = 1 /\ Len(lastCall.b.src_gateway) = 1
    /\ Len(lastCall.a.receiver) = 1 /\ Len(lastCall.b.receiver) = 1
    /\ lastCall.a.dst_chain_id # lastCall.b.dst_chain_id
    /\ lastCall.a.receiver # lastCall.b.receiver
    /\ lastCall.a.nonce # lastCall.b.nonce
    /\ lastCall.bytes_a # lastCall.bytes_b

\* C15 (the claim as stated): execute_message checks the signature first and
\* the replay set second, before looking at the receiver: whatever the
\* receiver is, a call whose signature is not the relayer's over its
\* canonical bytes fails with InvalidSignature, and a call with the relayer's
\* signature whose digest is already recorded fails with AlreadyExecuted.
C15_CheckOrder ==
    [][ lastCall'.op = "execute_message"
        => /\ ~(SignedByRelayer(lastCall') /\ lastCall'.signature.len = SignatureLen)
                 => lastCall'.result = Revert(InvalidSignature)
           /\ ( /\ SignedByRelayer(lastCall')
                /\ lastCall'.signature.len = SignatureLen
                /\ Recorded(executed_messages, lastCall') )
                 => lastCall'.result = Revert(AlreadyExecuted) ]_vars

\* the destination chain id written in a canonical message
DstChainOf(message) == from_be_bytes(SubSeq(message, 5, 8))

C17_RelayerKeyImmutable ==
    [][ /\ (lastCall'.op = "call" /\ lastCall'.result = Ok)
              => relayer_pubkey' = lastCall'.key
        /\ gateway => relayer_pubkey' = relayer_pubkey ]_vars

\* C17 witness: after installation with the 64-byte key, a chain was set, two
\* messages were sent and an execute_message call failed; the key is still
\* the installed one
C17_Witness ==
    /\ gateway
    /\ relayer_pubkey = RawXY(7)
    /\ Len(sent) = 2
    /\ marked[1] # "never"
    /\ lastCall.op = "execute_message"
    /\ lastCall.result # Ok

\* C19 (the claim as stated): execute_message with a signature of the wrong
\* length, or on a gateway whose installed key does not parse as a public
\* key, fails with InvalidSignature (user error 5).
C19_MalformedKeyMaterial ==
    ( /\ lastCall.op = "execute_message"
      /\ \/ lastCall.signature.len # SignatureLen
         \/ ~TryIntoPublicKey(relayer_pubkey).ok )
        => lastCall.result = [status |-> "revert", code |-> 5]

\* a <= b as u64 values, on the representatives nearest to 0
U64LE(a, b) == IF (a < 0) = (b < 0) THEN a <= b ELSE b < 0

\* C18 (the claim as stated): the stored nonce counter never decreases, also
\* at the top of its u64 range: no step takes it from a value to a smaller
\* one, and a send_message issued at 2^64-1 does not leave it at 0.
C18_NonceNeverDecreases ==
    [][ U64LE(nonce, nonce') ]_vars

\* C20 (the claim as stated): after n successful send_message calls the
\* messages archive holds n distinct entries.
C20_ArchiveKeepsEverySend ==
    Cardinality(DOMAIN messages) = Len(sent)

\* C22: inbound and outbound state are disjoint.  An execute_message step,
\* whatever its outcome, leaves nonce, messages and supported_chains unchanged;
\* a send_message step leaves executed_messages and supported_chains
\* unchanged; a set_supported_chain step leaves nonce, messages and
\* executed_messages unchanged.
C22_DisjointFrames ==
    [][ /\ lastCall'.op = "execute_message"
              => /\ nonce' = nonce
                 /\ messages' = messages
                 /\ supported_chains' = supported_chains
        /\ lastCall'.op = "send_message"
              => /\ executed_messages' = executed_messages
                 /\ supported_chains' = supported_chains
        /\ lastCall'.op = "set_supported_chain"
              => /\ nonce' = nonce
                 /\ messages' = messages
                 /\ executed_messages' = executed_messages ]_vars

\* C22 witness: an execute_message call has run on a gateway that has sent
\* two messages and whose registry holds both a true and a false mark
C22_Witness ==
    /\ lastCall.op = "execute_message"
    /\ nonce = 2
    /\ Cardinality(DOMAIN messages) = 2
    /\ marked[1] = "true"
    /\ marked[999] = "false"

=============================================================================
